---- MODULE Spec2Model ----
\* Model of PurviewCollectionsClient's collection-hierarchy logic
\* (src/pyapacheatlas/core/collections/purview.py): the directory built by
\* _get_final_collection_names, the tree built by _hierarchy, and the two
\* nested-collection creators create_collectiions and create_collectiions2.
\*
\* A Python str is the sequence of its code points (ord of each character):
\* "a b" is <<97, 32, 98>>. None is the value None, which is no str.
\* A local that Python leaves unbound is 0 (child) or the empty sequence.
EXTENDS Integers, Sequences, FiniteSets, TLC

\* ---------------------------------------------------------------- bounds
MaxDir == 2       \* entries of the listing the creators read
MaxSegs == 3      \* segments of one path string
MaxRecs == 3      \* entries of the listing the hierarchy builder reads

\* ---------------------------------------------------------------- strings
None == <<-1>>
NoError == [type |-> "None", value |-> <<>>]

\* ' ' in s (the space is 32)
HasSpace(s) == \E i \in DOMAIN s : s[i] = 32

\* s.replace(" ", "")
RemoveSpaces(s) == SelectSeq(s, LAMBDA c : c # 32)

\* The code points str.strip() removes: the characters Python counts as
\* whitespace. U+0009..U+000D, U+001C..U+001F, U+0020, U+0085, U+00A0,
\* U+1680, U+2000..U+200A, U+2028, U+2029, U+202F, U+205F, U+3000.
Whitespace ==
    (9..13) \cup (28..32) \cup {133, 160, 5760} \cup (8192..8202)
        \cup {8232, 8233, 8239, 8287, 12288}

\* s.lstrip()
RECURSIVE LStrip(_)
LStrip(s) ==
    IF s # <<>> /\ Head(s) \in Whitespace THEN LStrip(Tail(s)) ELSE s

\* s.rstrip()
RECURSIVE RStrip(_)
RStrip(s) ==
    IF s # <<>> /\ s[Len(s)] \in Whitespace
    THEN RStrip(SubSeq(s, 1, Len(s) - 1)) ELSE s

\* s.strip()
Strip(s) == RStrip(LStrip(s))

\* s.split("/"), "/" being 47: the pieces between the separators, empty
\* pieces included
RECURSIVE Split(_)
Split(s) ==
    IF \A i \in DOMAIN s : s[i] # 47
    THEN <<s>>
    ELSE LET k == CHOOSE i \in DOMAIN s :
                      s[i] = 47 /\ \A j \in 1..(i - 1) : s[j] # 47
         IN  <<SubSeq(s, 1, k - 1)>> \o Split(SubSeq(s, k + 1, Len(s)))

\* final_names of one path string (lines 358-362 and 415-419)
FinalNames(path) ==
    LET split_names == IF \E i \in DOMAIN path : path[i] = 47
                       THEN Split(path) ELSE <<path>>
    IN  [i \in DOMAIN split_names |-> Strip(split_names[i])]

\* "/".join(segs), used to write the path strings the caller passes
RECURSIVE JoinPath(_)
JoinPath(segs) ==
    IF Len(segs) = 1 THEN segs[1]
    ELSE segs[1] \o <<47>> \o JoinPath(Tail(segs))

\* ---------------------------------------------------------------- directory
\* A Python dict kept in insertion order: a sequence of items with distinct
\* keys; assigning to a present key keeps its position and replaces its value.
DictKeys(d) == {d[i].key : i \in DOMAIN d}

DictSet(d, k, v) ==
    IF k \in DictKeys(d)
    THEN [i \in DOMAIN d |-> IF d[i].key = k THEN [key |-> k, value |-> v]
                                             ELSE d[i]]
    ELSE Append(d, [key |-> k, value |-> v])

\* _get_final_collection_names: listing -> {name: {friendlyName, index,
\* parentCollection}}; a record without "parentCollection" gets None.
RECURSIVE FinalCollectionList(_, _)
FinalCollectionList(collection_list, n) ==
    IF n = 0 THEN <<>>
    ELSE LET coll == collection_list[n]
         IN  DictSet(FinalCollectionList(collection_list, n - 1),
                     coll.name,
                     [friendlyName |-> coll.friendlyName,
                      index |-> n - 1,
                      parentCollection |->
                          IF coll.hasParent THEN coll.referenceName
                                            ELSE None])

GetFinalCollectionNames(collection_list) ==
    FinalCollectionList(collection_list, Len(collection_list))

\* ---------------------------------------------------------------- creators
VARIABLES
    op,                      \* the method called
    listing,                 \* what list_collections_new() returns
    arg_start,               \* argument collection_to_start_on
    collection_names,        \* argument collection_names (path strings)
    names_given,             \* FALSE: collection_names is its default, None
    pc,                      \* position in the method
    collection_list,         \* local collection_list (the directory)
    collection_to_start_on,  \* local collection_to_start_on
    path_index,              \* position of the loop over collection_names
    final_names,             \* local final_names of the current path
    updated_final_names,     \* local updated_final_names (create_collectiions)
    collection_dict,         \* local collection_dict (create_collectiions2)
    really_final_list,       \* the PUT requests of the current path, in order
    call_index,              \* position of the loop that issues them
    calls,                   \* every PUT issued so far, with its outcome
    error,                   \* the exception that left the method, if any
    nodes,                   \* _hierarchy: the anytree nodes created so far
    root_name,               \* _hierarchy: local root_name
    child,                   \* _hierarchy: local child (a node number)
    hier_index,              \* _hierarchy: position of the loop
    rendered                 \* _hierarchy: the printed lines

vars == <<op, listing, arg_start, collection_names, names_given,
          pc, collection_list,
          collection_to_start_on, path_index, final_names,
          updated_final_names, collection_dict, really_final_list,
          call_index, calls, error, nodes, root_name, child, hier_index,
          rendered>>

hierVars == <<nodes, root_name, child, hier_index, rendered>>

\* Lines 347-352 and 404-409: the loop over the directory that resolves the
\* start collection. The loop compares against, and assigns to, the same
\* variable. Result: the variable and the list collection_to_start_on_check.
StartLoopStep(acc, item) ==
    IF acc.start = item.value.friendlyName \/ acc.start = item.key
    THEN [start |-> item.key, check |-> Append(acc.check, item.key)]
    ELSE acc

RECURSIVE StartLoop(_, _, _)
StartLoop(start, dir, n) ==
    IF n = 0 THEN [start |-> start, check |-> <<>>]
    ELSE StartLoopStep(StartLoop(start, dir, n - 1), dir[n])

\* a resolver that accepts a start collection no entry matches
ResolveStartCollectionAny(start, dir) ==
    [start |-> Strip(start), check |-> <<Strip(start)>>]

ResolveStartCollection(start, dir) == StartLoop(Strip(start), dir, Len(dir))

\* Lines 366-371: one segment of updated_final_names after the inner loop.
UpdatedNameStep(current, name, item) ==
    IF name = item.value.friendlyName /\ name # item.key /\ HasSpace(name)
    THEN item.value.friendlyName
    ELSE IF name = item.value.friendlyName /\ name # item.key
         THEN item.key
         ELSE current

RECURSIVE UpdatedName(_, _, _)
UpdatedName(name, dir, n) ==
    IF n = 0 THEN name
    ELSE UpdatedNameStep(UpdatedName(name, dir, n - 1), name, dir[n])

UpdatedFinalNames(names, dir) ==
    [i \in DOMAIN names |-> UpdatedName(names[i], dir, Len(dir))]

\* a creator that hangs every segment under the start collection
CreateRequestFlat(index, names, updated, start) ==
    [name |-> IF HasSpace(updated[index]) THEN RemoveSpaces(updated[index])
                                          ELSE updated[index],
     friendlyName |-> names[index],
     referenceName |-> start]

\* Lines 374-392: the request create_collectiions sends for segment `index`
\* (counted from 1): the id in the URL, and the two fields of the body.
CreateRequest(index, names, updated, start) ==
    LET name == updated[index]
        friendly_name == name
        url_name == IF HasSpace(name) THEN RemoveSpaces(name) ELSE name
    IN  IF index = 1
        THEN [name |-> url_name, friendlyName |-> names[index],
              referenceName |-> start]
        ELSE [name |-> url_name, friendlyName |-> friendly_name,
              referenceName |-> updated[index - 1]]

CreateRequests(names, updated, start) ==
    [i \in DOMAIN updated |-> CreateRequest(i, names, updated, start)]

\* Lines 425-442: the branch of create_collectiions2's inner loop taken for
\* segment `name` at position `index` (from 0) and one directory item.
CollectionDictStep(d, index, name, item, start) ==
    LET coll == item.key
        value == item.value
    IN  IF index = 0 /\ HasSpace(name)
        THEN DictSet(d, RemoveSpaces(name),
                     [friendlyName |-> name, parentCollection |-> start])
        ELSE IF index = 0
        THEN DictSet(d, name,
                     [friendlyName |-> name, parentCollection |-> start])
        ELSE IF name = value.friendlyName /\ name # coll /\ index > 0
        THEN DictSet(d, coll,
                     [friendlyName |-> name,
                      parentCollection |-> value.parentCollection])
        ELSE IF name = coll /\ index > 0
        THEN DictSet(d, name,
                     [friendlyName |-> name,
                      parentCollection |-> value.parentCollection])
        ELSE IF name # value.friendlyName /\ name # coll /\ HasSpace(name)
                /\ index > 0
        THEN DictSet(d, RemoveSpaces(name),
                     [friendlyName |-> name, parentCollection |-> None])
        ELSE DictSet(d, name,
                     [friendlyName |-> name, parentCollection |-> None])

\* the inner loop over the directory, for one segment
RECURSIVE CollectionDictInner(_, _, _, _, _, _)
CollectionDictInner(d, index, name, dir, n, start) ==
    IF n = 0 THEN d
    ELSE CollectionDictStep(
             CollectionDictInner(d, index, name, dir, n - 1, start),
             index, name, dir[n], start)

\* Lines 421-442: the outer loop over the first k segments
RECURSIVE CollectionDict(_, _, _, _)
CollectionDict(names, k, dir, start) ==
    IF k = 0 THEN <<>>
    ELSE CollectionDictInner(CollectionDict(names, k - 1, dir, start),
                             k - 1, names[k], dir, Len(dir), start)

\* Lines 445-453: an item without parent gets the key of the item before it;
\* Python's index -1 is the last item of the list.
ReallyFinalList(d) ==
    [i \in DOMAIN d |->
        IF d[i].value.parentCollection = None
        THEN [name |-> d[i].key, friendlyName |-> d[i].value.friendlyName,
              referenceName |-> d[IF i = 1 THEN Len(d) ELSE i - 1].key]
        ELSE [name |-> d[i].key, friendlyName |-> d[i].value.friendlyName,
              referenceName |-> d[i].value.parentCollection]]

\* requests.put: a response that reports success, a response that reports an
\* error (the method reads only its content), or an exception of the
\* transport.
Outcomes == {"ok", "error_response", "exception"}

\* Lines 345-355 and 402-412.
ResolveStart ==
    /\ pc = "start"
    /\ op \in {"create_collectiions", "create_collectiions2"}
    /\ LET dir == GetFinalCollectionNames(listing)
           r == ResolveStartCollection(arg_start, dir)
       IN  /\ collection_list' = dir
           /\ collection_to_start_on' = r.start
           /\ IF r.check = <<>>
              THEN /\ pc' = "raised"
                   /\ error' = [type |-> "ValueError", value |-> r.start]
              ELSE /\ pc' = "paths"
                   /\ error' = error
    /\ UNCHANGED <<op, listing, arg_start, collection_names, names_given,
                   path_index,
                   final_names, updated_final_names, collection_dict,
                   really_final_list, call_index, calls>>
    /\ UNCHANGED hierVars

\* Lines 357-373 (create_collectiions) and 414-453 (create_collectiions2):
\* everything one iteration of the loop over collection_names does before its
\* first request.
PreparePath ==
    /\ pc = "paths"
    /\ names_given
    /\ path_index <= Len(collection_names)
    /\ LET names == FinalNames(collection_names[path_index])
       IN  /\ final_names' = names
           /\ IF op = "create_collectiions"
              THEN LET updated == UpdatedFinalNames(names, collection_list)
                   IN  /\ updated_final_names' = updated
                       /\ collection_dict' = <<>>
                       /\ really_final_list' =
                              CreateRequests(names, updated,
                                             collection_to_start_on)
              ELSE LET d == CollectionDict(names, Len(names),
                                           collection_list,
                                           collection_to_start_on)
                   IN  /\ updated_final_names' = <<>>
                       /\ collection_dict' = d
                       /\ really_final_list' = ReallyFinalList(d)
    /\ call_index' = 1
    /\ pc' = "requests"
    /\ UNCHANGED <<op, listing, arg_start, collection_names, names_given,
                   collection_list,
                   collection_to_start_on, path_index, calls, error>>
    /\ UNCHANGED hierVars

\* Lines 357 and 414 with collection_names left at its default: iterating
\* None raises TypeError, after the start collection was resolved.
IterateNone ==
    /\ pc = "paths"
    /\ ~names_given
    /\ pc' = "raised"
    /\ error' = [type |-> "TypeError", value |-> None]
    /\ UNCHANGED <<op, listing, arg_start, collection_names, names_given,
                   collection_list, collection_to_start_on, path_index,
                   final_names, updated_final_names, collection_dict,
                   really_final_list, call_index, calls>>
    /\ UNCHANGED hierVars

\* Lines 357 and 414 with nothing left to iterate: the method returns.
EndOfBatch ==
    /\ pc = "paths"
    /\ names_given
    /\ path_index > Len(collection_names)
    /\ pc' = "done"
    /\ UNCHANGED <<op, listing, arg_start, collection_names, names_given,
                   collection_list, collection_to_start_on, path_index,
                   final_names, updated_final_names, collection_dict,
                   really_final_list, call_index, calls, error>>
    /\ UNCHANGED hierVars

\* Lines 381-392 and 455-460: one requests.put and what follows it.
PutRequest ==
    /\ pc = "requests"
    /\ \E outcome \in Outcomes :
        /\ calls' = Append(calls,
                           [name |-> really_final_list[call_index].name,
                            friendlyName |->
                                really_final_list[call_index].friendlyName,
                            referenceName |->
                                really_final_list[call_index].referenceName,
                            path |-> path_index,
                            outcome |-> outcome])
        /\ IF outcome = "exception"
           THEN /\ pc' = "raised"
                /\ error' = [type |-> "RequestException",
                             value |-> really_final_list[call_index].name]
                /\ UNCHANGED <<call_index, path_index>>
           ELSE /\ error' = error
                /\ IF call_index < Len(really_final_list)
                   THEN /\ call_index' = call_index + 1
                        /\ pc' = pc
                        /\ path_index' = path_index
                   ELSE /\ call_index' = call_index
                        /\ path_index' = path_index + 1
                        /\ pc' = IF path_index < Len(collection_names)
                                 THEN "paths" ELSE "done"
    /\ UNCHANGED <<op, listing, arg_start, collection_names, names_given,
                   collection_list,
                   collection_to_start_on, final_names, updated_final_names,
                   collection_dict, really_final_list>>
    /\ UNCHANGED hierVars

\* ---------------------------------------------------------------- hierarchy
\* An anytree Node is a record [name, parent]; parent is the number of the
\* parent node, 0 for none. Node(name, parent=p) appends to p's children, so
\* the children of a node are ordered by their numbers.
ChildrenOf(ns, n) == {m \in DOMAIN ns : ns[m].parent = n}

IsLastChild(ns, n) == \A m \in ChildrenOf(ns, ns[n].parent) : m <= n

\* AsciiStyle: "|   ", "|-- ", "+-- " and four spaces
Vertical == <<124, 32, 32, 32>>
Cont == <<124, 45, 45, 32>>
End == <<43, 45, 45, 32>>
Empty == <<32, 32, 32, 32>>

\* the columns anytree prints for the ancestors of a node
RECURSIVE Indent(_, _)
Indent(ns, n) ==
    IF ns[n].parent = 0 THEN <<>>
    ELSE Indent(ns, ns[n].parent)
             \o (IF IsLastChild(ns, n) THEN Empty ELSE Vertical)

\* RenderTree(...).pre of node n under AsciiStyle
Pre(ns, n) ==
    IF ns[n].parent = 0 THEN <<>>
    ELSE Indent(ns, ns[n].parent)
             \o (IF IsLastChild(ns, n) THEN End ELSE Cont)

\* the nodes below and including n, in pre-order
RECURSIVE PreOrder(_, _)
RECURSIVE PreOrderAll(_, _, _)
PreOrder(ns, n) == <<n>> \o PreOrderAll(ns, ChildrenOf(ns, n), 0)

PreOrderAll(ns, cs, after) ==
    IF \A c \in cs : c <= after THEN <<>>
    ELSE LET c == CHOOSE x \in cs :
                      x > after /\ \A y \in cs : y > after => x <= y
         IN  PreOrder(ns, c) \o PreOrderAll(ns, cs, c)

\* Lines 332-333: the lines printed for the tree under node `root`
RenderLines(ns, root) ==
    LET order == PreOrder(ns, root)
    IN  [i \in DOMAIN order |-> Pre(ns, order[i]) \o ns[order[i]].name]

\* Line 317.
HierarchyFetch ==
    /\ pc = "start"
    /\ op = "_hierarchy"
    /\ collection_list' = GetFinalCollectionNames(listing)
    /\ hier_index' = 0
    /\ pc' = "loop"
    /\ UNCHANGED <<op, listing, arg_start, collection_names, names_given,
                   collection_to_start_on, path_index, final_names,
                   updated_final_names, collection_dict, really_final_list,
                   call_index, calls, error, nodes, root_name, child,
                   rendered>>

\* Lines 318-330: one iteration of the loop. The root is node 1. Reading
\* `child` before any child was made raises UnboundLocalError.
HierarchyStep ==
    /\ pc = "loop"
    /\ hier_index < Len(collection_list)
    /\ LET coll == collection_list[hier_index + 1]
           real_name == coll.key
           friendly_name == coll.value.friendlyName
           parent_collection == coll.value.parentCollection
       IN  IF hier_index = 0
           THEN /\ nodes' = <<[name |-> friendly_name, parent |-> 0]>>
                /\ root_name' = real_name
                /\ hier_index' = hier_index + 1
                /\ UNCHANGED <<child, pc, error>>
           ELSE IF parent_collection = root_name
           THEN /\ nodes' = Append(nodes,
                                   [name |-> friendly_name, parent |-> 1])
                /\ child' = Len(nodes) + 1
                /\ hier_index' = hier_index + 1
                /\ UNCHANGED <<root_name, pc, error>>
           ELSE IF child = 0
           THEN /\ pc' = "raised"
                /\ error' = [type |-> "UnboundLocalError",
                             value |-> <<99, 104, 105, 108, 100>>]  \* "child"
                /\ UNCHANGED <<nodes, root_name, child, hier_index>>
           ELSE /\ nodes' = Append(nodes,
                                   [name |-> friendly_name, parent |-> child])
                /\ child' = Len(nodes) + 1
                /\ hier_index' = hier_index + 1
                /\ UNCHANGED <<root_name, pc, error>>
    /\ UNCHANGED <<op, listing, arg_start, collection_names, names_given,
                   collection_list,
                   collection_to_start_on, path_index, final_names,
                   updated_final_names, collection_dict, really_final_list,
                   call_index, calls, rendered>>

\* Lines 332-333: after the loop. With an empty directory `root` was never
\* assigned.
HierarchyRender ==
    /\ pc = "loop"
    /\ hier_index = Len(collection_list)
    /\ IF nodes = <<>>
       THEN /\ pc' = "raised"
            /\ error' = [type |-> "UnboundLocalError",
                         value |-> <<114, 111, 111, 116>>]  \* "root"
            /\ rendered' = rendered
       ELSE /\ pc' = "done"
            /\ rendered' = RenderLines(nodes, 1)
            /\ error' = error
    /\ UNCHANGED <<op, listing, arg_start, collection_names, names_given,
                   collection_list,
                   collection_to_start_on, path_index, final_names,
                   updated_final_names, collection_dict, really_final_list,
                   call_index, calls, nodes, root_name, child, hier_index>>

\* ---------------------------------------------------------------- inputs
\* Sequences over S of length lo..hi
SeqsOf(S, lo, hi) == UNION {[1..n -> S] : n \in lo..hi}

\* The collections an account may hold, as the listing reports them:
\* ba/"a b" (the root), b/"ba", a/"ab", a/"a", ab/"a b".
AccountCollections ==
    { [name |-> <<98, 97>>, friendlyName |-> <<97, 32, 98>>,
       hasParent |-> FALSE, referenceName |-> <<>>],
      [name |-> <<98>>, friendlyName |-> <<98, 97>>,
       hasParent |-> TRUE, referenceName |-> <<98, 97>>],
      [name |-> <<97>>, friendlyName |-> <<97, 98>>,
       hasParent |-> TRUE, referenceName |-> <<97, 98>>],
      [name |-> <<97>>, friendlyName |-> <<97>>,
       hasParent |-> TRUE, referenceName |-> <<98, 97>>],
      [name |-> <<97, 98>>, friendlyName |-> <<97, 32, 98>>,
       hasParent |-> TRUE, referenceName |-> <<98, 97>>] }

\* Listings of the collections the caller may read: names are unique.
Listings ==
    {l \in SeqsOf(AccountCollections, 0, MaxDir) :
        \A i, j \in DOMAIN l : l[i].name = l[j].name => i = j}

\* "a b" and " ba\n"
StartArguments == {<<97, 32, 98>>, <<32, 98, 97, 10>>}

\* "a", "\tb" followed by U+00A0, "ab" and "a b"
Segments == {<<97>>, <<9, 98, 160>>, <<97, 98>>, <<97, 32, 98>>}

PathStrings == {JoinPath(segs) : segs \in SeqsOf(Segments, 1, MaxSegs)}

\* A batch is empty, one path string, or two path strings of one segment
\* each.
Batches ==
    {<<>>} \cup {<<p>> : p \in PathStrings}
        \cup {<<p, q>> : p \in Segments, q \in Segments}

\* ids "a", "b", "c"; the parent "d" is no id; friendly names "F", "G"
HierNames == {<<97>>, <<98>>, <<99>>}
HierParents == HierNames \cup {<<100>>}
HierFriendlyNames == {<<70>>, <<71>>}

HierRecords ==
    [name : HierNames, friendlyName : HierFriendlyNames,
     hasParent : {TRUE}, referenceName : HierParents]
    \cup [name : HierNames, friendlyName : HierFriendlyNames,
          hasParent : {FALSE}, referenceName : {<<>>}]

InitLocals ==
    /\ pc = "start"
    /\ collection_list = <<>>
    /\ collection_to_start_on = <<>>
    /\ path_index = 1
    /\ final_names = <<>>
    /\ updated_final_names = <<>>
    /\ collection_dict = <<>>
    /\ really_final_list = <<>>
    /\ call_index = 1
    /\ calls = <<>>
    /\ error = NoError
    /\ nodes = <<>>
    /\ root_name = <<>>
    /\ child = 0
    /\ hier_index = 0
    /\ rendered = <<>>

\* a call of create_collectiions or create_collectiions2
Init ==
    /\ op \in {"create_collectiions", "create_collectiions2"}
    /\ listing \in Listings
    /\ arg_start \in StartArguments
    /\ \/ names_given = TRUE /\ collection_names \in Batches
       \/ names_given = FALSE /\ collection_names = <<>>
    /\ InitLocals

Next ==
    ResolveStart \/ IterateNone \/ EndOfBatch \/ PreparePath \/ PutRequest

Spec == Init /\ [][Next]_vars

\* a call of _hierarchy
InitHierarchy ==
    /\ op = "_hierarchy"
    /\ listing \in SeqsOf(HierRecords, 0, MaxRecs)
    /\ arg_start = <<>>
    /\ collection_names = <<>>
    /\ names_given = FALSE
    /\ InitLocals

NextHierarchy == HierarchyFetch \/ HierarchyStep \/ HierarchyRender

SpecHierarchy == InitHierarchy /\ [][NextHierarchy]_vars

\* ---------------------------------------------------------------- properties
\* the directory the method reads
Directory == GetFinalCollectionNames(listing)

\* s is the id or the friendly name of an entry of dir
Matches(s, dir) ==
    \E i \in DOMAIN dir : dir[i].key = s \/ dir[i].value.friendlyName = s

\* the trimmed segments of path p of the batch
PathSegments(p) == FinalNames(collection_names[p])

\* the requests issued for path p of the batch, in order
CallsOfPath(p) == SelectSeq(calls, LAMBDA c : c.path = p)

\* every request of path p was issued and answered
PathCompleted(p) == path_index > p

\* path p: segments pairwise distinct, without spaces, unknown to the directory
FreshPath(p) ==
    LET segs == PathSegments(p)
    IN  /\ \A i, j \in DOMAIN segs : segs[i] = segs[j] => i = j
        /\ \A i \in DOMAIN segs :
               ~HasSpace(segs[i]) /\ ~Matches(segs[i], Directory)

\* C1: for a start collection that resolves and a path of n pairwise distinct
\* segments without spaces that match nothing in the directory, both creators
\* issue exactly n requests in path order: request 1 creates segment 1 under
\* the resolved start collection id, request k > 1 creates segment k under
\* segment k-1.
C1_FreshPathCreatesChain ==
    \A p \in DOMAIN collection_names :
        (pc \notin {"start"} /\ error.type # "ValueError" /\ FreshPath(p)) =>
            LET segs == PathSegments(p)
                cs == CallsOfPath(p)
            IN  /\ collection_to_start_on \in DictKeys(Directory)
                /\ Len(cs) <= Len(segs)
                /\ \A k \in DOMAIN cs :
                       /\ cs[k].name = segs[k]
                       /\ cs[k].referenceName =
                              IF k = 1 THEN collection_to_start_on
                                       ELSE segs[k - 1]
                /\ PathCompleted(p) => Len(cs) = Len(segs)

C1_Witness ==
    /\ pc = "done"
    /\ op = "create_collectiions2"
    /\ 1 \in DOMAIN collection_names
    /\ FreshPath(1)
    /\ Len(PathSegments(1)) = 3
    /\ Len(CallsOfPath(1)) = 3

\* C5: when the trimmed start collection is neither the id nor the friendly
\* name of a directory entry, the creator raises an error naming that value
\* and issues no request for any path of the batch.
C5_UnknownStartRaisesBeforeAnyCall ==
    (op \in {"create_collectiions", "create_collectiions2"}
        /\ ~Matches(Strip(arg_start), Directory)) =>
        /\ calls = <<>>
        /\ pc \in {"start", "raised"}
        /\ pc = "raised" =>
               error = [type |-> "ValueError", value |-> Strip(arg_start)]

C5_Witness ==
    /\ pc = "raised"
    /\ error.type = "ValueError"
    /\ Directory # <<>>
    /\ Len(collection_names) = 2
    /\ arg_start # Strip(arg_start)

\* C2: every request's parent reference is a resolved identifier: the
\* canonical start id for the first request of a path, and for every later
\* request the identifier under which the request before it was addressed
\* (for a segment with a space, the space-stripped id, not the friendly name).
C2_ParentIsResolvedIdentifier ==
    \A p \in DOMAIN collection_names :
        LET cs == CallsOfPath(p)
        IN  \A k \in DOMAIN cs :
                cs[k].referenceName =
                    IF k = 1 THEN collection_to_start_on ELSE cs[k - 1].name

\* the ids of the directory entries segment s resolves to, by id or by name
ResolvedIds(s, dir) ==
    {dir[i].key : i \in {j \in DOMAIN dir :
                            dir[j].key = s \/ dir[j].value.friendlyName = s}}

\* C3: no request is issued for a segment that resolves, by id or by friendly
\* name, to a collection of the directory: no request of a path addresses an
\* entry that one of the path's segments resolves to.
C3_ExistingCollectionsAreSkipped ==
    \A p \in DOMAIN collection_names :
        LET segs == PathSegments(p)
            cs == CallsOfPath(p)
        IN  \A k \in DOMAIN segs : \A c \in DOMAIN cs :
                cs[c].name \notin ResolvedIds(segs[k], Directory)

\* C4: a segment that equals the id of one entry and the friendly name of
\* another resolves to the id-match: create_collectiions keeps the segment
\* itself, and create_collectiions2 addresses no entry only because its
\* friendly name equals such a segment.
C4_IdMatchTakesPrecedence ==
    /\ (op = "create_collectiions" /\ updated_final_names # <<>>) =>
           \A k \in DOMAIN final_names :
               final_names[k] \in DictKeys(Directory) =>
                   updated_final_names[k] = final_names[k]
    /\ (op = "create_collectiions2" /\ collection_dict # <<>>) =>
           \A key \in DictKeys(collection_dict) :
               \/ \E k \in DOMAIN final_names :
                      key = RemoveSpaces(final_names[k])
               \/ \E k \in DOMAIN final_names :
                      /\ final_names[k] \notin DictKeys(Directory)
                      /\ key \in ResolvedIds(final_names[k], Directory)

\* C6: after a request of a path failed, no later request of that path is
\* issued, and the method does not end without an error.
C6_FailureAbortsPath ==
    /\ \A i, j \in DOMAIN calls :
           (i < j /\ calls[i].path = calls[j].path) => calls[i].outcome = "ok"
    /\ (pc = "done" /\ \E i \in DOMAIN calls : calls[i].outcome # "ok") =>
           error # NoError

\* path p has two new segments with the same space-stripped identifier
DuplicateNewSegments(p) ==
    LET segs == PathSegments(p)
    IN  \E i, j \in DOMAIN segs :
            /\ i # j
            /\ RemoveSpaces(segs[i]) = RemoveSpaces(segs[j])
            /\ ~Matches(segs[i], Directory)
            /\ ~Matches(segs[j], Directory)

\* C7: a path with two new segments of the same working identifier fails: it
\* does not complete, no identifier is addressed by two of its requests, and
\* no two of its requests make two collections each other's parent.
C7_DuplicateSegmentIdentifierFails ==
    \A p \in DOMAIN collection_names :
        DuplicateNewSegments(p) =>
            LET cs == CallsOfPath(p)
            IN  /\ ~PathCompleted(p)
                /\ \A i, j \in DOMAIN cs : cs[i].name = cs[j].name => i = j
                /\ \A i, j \in DOMAIN cs :
                       ~(/\ i # j
                         /\ cs[i].referenceName = cs[j].name
                         /\ cs[j].referenceName = cs[i].name)

\* entry i of the directory names a parent that is no entry's id
Dangling(dir, i) ==
    /\ dir[i].value.parentCollection # None
    /\ dir[i].value.parentCollection \notin DictKeys(dir)

\* C8: the tree built for a directory has one node per entry; the entries
\* without parent are exactly the roots, and every other node is a child of
\* the node of the entry whose id is its parentId.
C8_ForestFollowsParentIds ==
    (op = "_hierarchy" /\ pc = "done") =>
        /\ Len(nodes) = Len(collection_list)
        /\ \A i \in DOMAIN nodes :
               /\ nodes[i].parent = 0
                      <=> collection_list[i].value.parentCollection = None
               /\ nodes[i].parent # 0 =>
                      collection_list[nodes[i].parent].key =
                          collection_list[i].value.parentCollection

\* C9: with a record whose parentId is no entry's id, the build completes
\* without raising and the record is a root of the result, at every position
\* of the record in the directory.
C9_DanglingParentBecomesRoot ==
    (op = "_hierarchy" /\ pc # "start") =>
        \A i \in DOMAIN collection_list :
            Dangling(collection_list, i) =>
                /\ pc # "raised"
                /\ pc = "done" => (i \in DOMAIN nodes /\ nodes[i].parent = 0)

\* C10: when the start collection resolves, the canonical start id is the id
\* of an entry whose id or friendly name equals the trimmed start argument.
C10_StartIdMatchesArgument ==
    (op \in {"create_collectiions", "create_collectiions2"}
        /\ pc \in {"paths", "requests", "done"}) =>
        collection_to_start_on \in ResolvedIds(Strip(arg_start), Directory)

\* C11: for a path of n segments create_collectiions2 issues at most n
\* requests: a segment that matches a directory entry produces no request
\* under the raw segment text next to the request under the matched id.
C11_AtMostOneRequestPerSegment ==
    op = "create_collectiions2" =>
        \A p \in DOMAIN collection_names :
            Len(CallsOfPath(p)) <= Len(PathSegments(p))

====
